---- MODULE Spec2Model ----
(***************************************************************************)
(* Model of the download client of esp-data-streamer                       *)
(* (src/python/data-streamer/client.py): Client.download dispatching to     *)
(* Client._handle_multipart_response, the incremental multipart decoder,    *)
(* or to Client._handle_single_file_response.                               *)
(*                                                                         *)
(* A byte is its value, 0..255, and a bytes object a sequence of them; a    *)
(* character of a str is its code point, and a str a sequence of them.      *)
(* One action delivers one chunk of the response body and runs the whole    *)
(* body of the decoder's `for chunk in response.iter_content(...)` loop,    *)
(* inner `while buffer` loop included.                                      *)
(*                                                                         *)
(* Scaling.  CHUNK_SIZE is 8192 in the source.  The decoder reads it in     *)
(* two places: as the largest chunk the byte source yields and as the       *)
(* number of trailing bytes it keeps back in the mid-part state.  So that   *)
(* bodies of a few dozen bytes make buffers longer than CHUNK_SIZE (and     *)
(* the flush of lines 156-160 happens), the model divides it by Scale.      *)
(* Boundary tokens stay short enough that a whole marker but its last       *)
(* byte fits in the tail kept back: Len(boundary) + 3 <= CHUNK_SIZE, as     *)
(* it is for the real 8192 and every boundary RFC 2046 allows (70 bytes).   *)
(*                                                                         *)
(* The environment.  The interpreter is CPython on Linux: a file object     *)
(* that is still open when the last reference to it goes is closed by its   *)
(* finaliser, and file names are encoded as UTF-8 with the surrogateescape  *)
(* error handler.  The file system is an input (Environments): the          *)
(* directories and files that exist when the download starts, download_dir  *)
(* among them (line 80), given as an absolute path.  It holds no symbolic   *)
(* links, the process may create and write files wherever a directory       *)
(* exists, and writes and closes do not fail.  Standard output encodes      *)
(* UTF-8, with the error handler strict or surrogateescape.  The clock of   *)
(* time() is read in whole ticks and does not go back.                      *)
(***************************************************************************)
EXTENDS Naturals, Integers, Sequences, FiniteSets

VARIABLES
    sc,            \* the response the server sends and the environment it is
                   \* received in (the input; never changes)
    headers,       \* response.headers: [ct, cd]
    body,          \* the response body, all of it
    pos,           \* number of body bytes iter_content has yielded so far
    fetched,       \* TRUE once iter_content was asked for a chunk
    pc,            \* where download() is: "start", "multipart", "single",
                   \* "returned", or the class of the exception that left
                   \* the handler
    boundary,      \* _handle_multipart_response: boundary
    buffer,        \* _handle_multipart_response: buffer
    current_file,  \* index into files of the handler's current_file, 0 for
                   \* None
    files,         \* every file object open() returned, in order
    tot_bytes,     \* _handle_multipart_response: tot_bytes
    term_seen,     \* history: an iteration began with the terminal marker
    unnamed_seen,  \* history: a complete header block held no part name
    stop,          \* history: the branch that ended the last while loop
    split,         \* history: file whose marker the last chunk completed
    dropped,       \* history: bytes cut from the buffer as header blocks
    start_time,    \* _handle_multipart_response: start_time, in clock ticks
    time_now,      \* _handle_multipart_response: time_now, in clock ticks;
                   \* the reading of line 106 until the first chunk
    speed          \* the pair _calculate_speed returned last (the locals _
                   \* and avg_speed), NoSpeed before the first call

vars == <<sc, headers, body, pos, fetched, pc, boundary, buffer, current_file,
          files, tot_bytes, term_seen, unnamed_seen, stop, split, dropped,
          start_time, time_now, speed>>

----------------------------------------------------------------------------
(* Bounds of the model *)

Scale == 1024
MaxParts == 2
MaxBoundaryLen == 2
MaxElapsed == 4

(* client.py line 35, CHUNK_SIZE = 8192, divided by the model's Scale *)
CHUNK_SIZE == 8192 \div Scale

----------------------------------------------------------------------------
(* Byte strings and strs *)

CRLF == <<13, 10>>                  \* b'\r\n'
CRLFCRLF == <<13, 10, 13, 10>>      \* b'\r\n\r\n'
DASHDASH == <<45, 45>>              \* b'--'

(* None, as re.search and headers.get return it: no str and no bytes *)
NoMatch == <<-1>>
NoHeader == <<-1>>

Max(a, b) == IF a >= b THEN a ELSE b
Min(a, b) == IF a <= b THEN a ELSE b

(* bytes.startswith / str.startswith *)
startswith(s, p) == Len(s) >= Len(p) /\ SubSeq(s, 1, Len(p)) = p

(* bytes.find: lowest 0-based index of p in s, -1 when absent *)
find(s, p) ==
    LET hits == {i \in 0..(Len(s) - Len(p)) : SubSeq(s, i + 1, i + Len(p)) = p}
    IN IF hits = {} THEN -1 ELSE CHOOSE i \in hits : \A j \in hits : i <= j

(* s[n:] *)
Drop(s, n) == SubSeq(s, n + 1, Len(s))

(* s[:n] *)
Take(s, n) == SubSeq(s, 1, n)

(* The number of bytes of the UTF-8 sequence that the byte b begins, 0     *)
(* when no sequence begins with it                                          *)
WidthOf(b) ==
    IF b < 128 THEN 1
    ELSE IF b \in 194..223 THEN 2
    ELSE IF b \in 224..239 THEN 3
    ELSE IF b \in 240..244 THEN 4
    ELSE 0

(* A well-formed UTF-8 sequence of w bytes begins at the 1-based index i   *)
(* of bs: continuation bytes follow the first byte, and the sequence is     *)
(* neither an overlong form, nor a surrogate, nor beyond U+10FFFF           *)
WellFormedAt(bs, i, w) ==
    /\ w # 0
    /\ Len(bs) >= i + w - 1
    /\ \A k \in (i + 1)..(i + w - 1) : bs[k] \in 128..191
    /\ (bs[i] = 224 => bs[i + 1] >= 160)
    /\ (bs[i] = 237 => bs[i + 1] <= 159)
    /\ (bs[i] = 240 => bs[i + 1] >= 144)
    /\ (bs[i] = 244 => bs[i + 1] <= 143)

(* The code point of the UTF-8 sequence of w bytes at index i of bs *)
CodePointAt(bs, i, w) ==
    IF w = 1 THEN bs[i]
    ELSE IF w = 2 THEN (bs[i] - 192) * 64 + (bs[i + 1] - 128)
    ELSE IF w = 3
    THEN (bs[i] - 224) * 4096 + (bs[i + 1] - 128) * 64 + (bs[i + 2] - 128)
    ELSE (bs[i] - 240) * 262144 + (bs[i + 1] - 128) * 4096
            + (bs[i + 2] - 128) * 64 + (bs[i + 3] - 128)

(* bs is UTF-8 from index i on *)
RECURSIVE DecodesFrom(_, _)
DecodesFrom(bs, i) ==
    \/ i > Len(bs)
    \/ LET w == WidthOf(bs[i])
       IN WellFormedAt(bs, i, w) /\ DecodesFrom(bs, i + w)

(* The code points of the UTF-8 sequences of bs from index i on *)
RECURSIVE DecodeFrom(_, _)
DecodeFrom(bs, i) ==
    IF i > Len(bs) THEN <<>>
    ELSE LET w == WidthOf(bs[i])
         IN <<CodePointAt(bs, i, w)>> \o DecodeFrom(bs, i + w)

(* bs is UTF-8: bytes.decode("utf-8") returns, where it raises              *)
(* UnicodeDecodeError otherwise                                             *)
decodes(bs) == DecodesFrom(bs, 1)

(* bytes.decode("utf-8"), line 131, of bytes that are UTF-8: the str *)
decode(bs) == DecodeFrom(bs, 1)

(* The UTF-8 sequence of the code point c *)
Utf8Of(c) ==
    CASE c < 128 -> <<c>>
      [] c \in 128..2047 -> <<192 + (c \div 64), 128 + (c % 64)>>
      [] c \in 2048..65535 ->
            <<224 + (c \div 4096), 128 + ((c \div 64) % 64), 128 + (c % 64)>>
      [] OTHER ->
            <<240 + (c \div 262144), 128 + ((c \div 4096) % 64),
              128 + ((c \div 64) % 64), 128 + (c % 64)>>

(* The str holds no surrogate: str.encode("utf-8") returns, where it raises *)
(* UnicodeEncodeError otherwise                                             *)
encodes(s) == \A i \in DOMAIN s : s[i] \notin 55296..57343

(* str.encode("utf-8"), line 112, of a str without surrogates: the bytes *)
RECURSIVE encode(_)
encode(s) ==
    IF s = <<>> THEN <<>> ELSE Utf8Of(s[1]) \o encode(Tail(s))

----------------------------------------------------------------------------
(* The regular expressions of the handlers, which search strs *)

QUOTE == 34                         \* '"'

(* \s of a str pattern: the code points for which str.isspace() holds *)
Whitespace ==
    (9..13) \cup (28..32) \cup {133, 160, 5760} \cup (8192..8202)
        \cup {8232, 8233, 8239, 8287, 12288}

(* 'X-Part-Name:', 'boundary=', 'filename=', 'multipart' *)
PART_NAME_KEY == <<88, 45, 80, 97, 114, 116, 45, 78, 97, 109, 101, 58>>
BOUNDARY_KEY == <<98, 111, 117, 110, 100, 97, 114, 121, 61>>
FILENAME_KEY == <<102, 105, 108, 101, 110, 97, 109, 101, 61>>
MULTIPART == <<109, 117, 108, 116, 105, 112, 97, 114, 116>>

(* Number of consecutive characters of s, from 0-based index i on, that lie *)
(* in class (inside = TRUE) or outside it (inside = FALSE): a greedy x* .   *)
RunLen(s, i, class, inside) ==
    CHOOSE n \in 0..(Len(s) - i) :
        /\ \A k \in 1..n : (s[i + k] \in class) = inside
        /\ (i + n = Len(s) \/ (s[i + n + 1] \in class) # inside)

(* r'X-Part-Name:\s*"([^"]+)"' matched at 0-based index i of h: the index   *)
(* of the opening quote and the length of group 1                           *)
NameQuoteAt(h, i) == i + Len(PART_NAME_KEY) + RunLen(h, i + Len(PART_NAME_KEY), Whitespace, TRUE)
NameLenAt(h, i) == RunLen(h, NameQuoteAt(h, i) + 1, {QUOTE}, FALSE)
NameMatchesAt(h, i) ==
    /\ startswith(Drop(h, i), PART_NAME_KEY)
    /\ NameQuoteAt(h, i) < Len(h)
    /\ h[NameQuoteAt(h, i) + 1] = QUOTE
    /\ NameLenAt(h, i) >= 1
    /\ NameQuoteAt(h, i) + 1 + NameLenAt(h, i) < Len(h)

(* Mutant of name_match: white space is required between the colon and the *)
(* quote                                                                    *)
name_match_needs_space(h) ==
    LET hits == {i \in 0..(Len(h) - 1) :
                    NameMatchesAt(h, i) /\ NameQuoteAt(h, i) > i + Len(PART_NAME_KEY)}
        i0 == CHOOSE i \in hits : \A j \in hits : i <= j
    IN IF hits = {} THEN NoMatch
       ELSE SubSeq(h, NameQuoteAt(h, i0) + 2, NameQuoteAt(h, i0) + 1 + NameLenAt(h, i0))

(* re.search(r'X-Part-Name:\s*"([^"]+)"', headers): group 1 of the         *)
(* leftmost match, NoMatch when there is none                               *)
name_match(h) ==
    LET hits == {i \in 0..(Len(h) - 1) : NameMatchesAt(h, i)}
        i0 == CHOOSE i \in hits : \A j \in hits : i <= j
    IN IF hits = {} THEN NoMatch
       ELSE SubSeq(h, NameQuoteAt(h, i0) + 2, NameQuoteAt(h, i0) + 1 + NameLenAt(h, i0))

(* Mutants of boundary_match: the token must be quoted; a missing token    *)
(* falls back to a default                                                  *)
boundary_match_quoted(ct) ==
    LET i0 == find(ct, BOUNDARY_KEY \o <<QUOTE>>)
        from == i0 + Len(BOUNDARY_KEY) + 1
    IN IF i0 = -1 THEN NoMatch
       ELSE SubSeq(ct, from + 1, from + RunLen(ct, from, {QUOTE}, FALSE))
boundary_match_default(ct) ==
    LET i0 == find(ct, BOUNDARY_KEY)
        from == i0 + Len(BOUNDARY_KEY)
    IN IF i0 = -1 THEN <<98>>
       ELSE SubSeq(ct, from + 1, from + RunLen(ct, from, {10}, FALSE))

(* re.search of the pattern boundary= followed by a greedy group of any    *)
(* characters but a line feed, in content_type: the group of the leftmost   *)
(* match, NoMatch when there is none                                        *)
boundary_match(ct) ==
    LET i0 == find(ct, BOUNDARY_KEY)
        from == i0 + Len(BOUNDARY_KEY)
    IN IF i0 = -1 THEN NoMatch
       ELSE SubSeq(ct, from + 1, from + RunLen(ct, from, {10}, FALSE))

(* r'filename="?([^"]+)"?' matched at 0-based index i of cd *)
FilenameFrom(cd, i) ==
    LET j == i + Len(FILENAME_KEY)
    IN IF j < Len(cd) /\ cd[j + 1] = QUOTE THEN j + 1 ELSE j
FilenameMatchesAt(cd, i) ==
    /\ startswith(Drop(cd, i), FILENAME_KEY)
    /\ RunLen(cd, FilenameFrom(cd, i), {QUOTE}, FALSE) >= 1

(* re.search(r'filename="?([^"]+)"?', cd): group 1 of the leftmost match *)
filename_match(cd) ==
    LET hits == {i \in 0..(Len(cd) - 1) : FilenameMatchesAt(cd, i)}
        i0 == CHOOSE i \in hits : \A j \in hits : i <= j
        from == FilenameFrom(cd, i0)
    IN IF hits = {} THEN NoMatch
       ELSE SubSeq(cd, from + 1, from + RunLen(cd, from, {QUOTE}, FALSE))

----------------------------------------------------------------------------
(* The file system.  A directory or a file is known by its path from the    *)
(* root: the sequence of its components, each the bytes of a name; the     *)
(* root is the empty path.  An environment e gives                          *)
(*   download_dir  the str the client was constructed with                  *)
(*   dirs          the paths of the directories that exist                  *)
(*   olds          the files that exist when the download starts: the path  *)
(*                 of the directory, the name, the bytes held               *)

NUL == 0
DOT == 46                           \* '.'
SLASH == 47                         \* '/'

(* The limits of Linux on the bytes of a component and of a whole path,    *)
(* its terminating NUL counted                                              *)
NAME_MAX == 255
PATH_MAX == 4096

(* os.fsencode returns: every surrogate of the str is one of U+DC80 to      *)
(* U+DCFF, where it raises UnicodeEncodeError otherwise                     *)
fsencodes(s) ==
    \A i \in DOMAIN s : s[i] \in 55296..57343 => s[i] \in 56448..56575

(* os.fsencode of the characters lo to hi of s: UTF-8, a surrogate U+DC80   *)
(* to U+DCFF giving the byte 0x80 to 0xFF (surrogateescape)                 *)
RECURSIVE FsencodeRange(_, _, _)
FsencodeRange(s, lo, hi) ==
    IF lo > hi THEN <<>>
    ELSE IF lo = hi
    THEN (IF s[lo] \in 56448..56575 THEN <<s[lo] - 56320>> ELSE Utf8Of(s[lo]))
    ELSE FsencodeRange(s, lo, (lo + hi) \div 2)
            \o FsencodeRange(s, (lo + hi) \div 2 + 1, hi)

(* os.fsencode of a str it can encode: the bytes *)
fsencode(s) == FsencodeRange(s, 1, Len(s))

(* os.path.join(a, b) *)
join(a, b) ==
    IF b # <<>> /\ b[1] = SLASH THEN b
    ELSE IF a = <<>> \/ a[Len(a)] = SLASH THEN a \o b
    ELSE a \o <<SLASH>> \o b

(* The components of the path p: the runs of bytes between slashes *)
RECURSIVE Components(_)
Components(p) ==
    IF p = <<>> THEN <<>>
    ELSE IF p[1] = SLASH THEN Components(Tail(p))
    ELSE <<Take(p, RunLen(p, 0, {SLASH}, FALSE))>>
            \o Components(Drop(p, RunLen(p, 0, {SLASH}, FALSE)))

(* The parent of a directory; the root is its own *)
Parent(dir) == IF dir = <<>> THEN <<>> ELSE Take(dir, Len(dir) - 1)

(* A directory exists at the path *)
IsDir(e, path) == path \in e.dirs

(* A file exists in the directory under the name: one that was there, or   *)
(* one that a file object of fs created                                     *)
IsFile(e, fs, dir, base) ==
    \/ \E o \in e.olds : o.dir = dir /\ o.base = base
    \/ \E i \in DOMAIN fs : fs[i].dir = dir /\ fs[i].base = base

(* The directory the components comps lead to from the directory dir, or   *)
(* the error of the first component that cannot be entered                  *)
RECURSIVE Walk(_, _, _, _)
Walk(e, fs, dir, comps) ==
    IF comps = <<>> THEN [err |-> "", dir |-> dir]
    ELSE IF Head(comps) = <<DOT>> THEN Walk(e, fs, dir, Tail(comps))
    ELSE IF Head(comps) = <<DOT, DOT>> THEN Walk(e, fs, Parent(dir), Tail(comps))
    ELSE IF Len(Head(comps)) > NAME_MAX
         THEN [err |-> "OSError", dir |-> dir]
    ELSE IF IsDir(e, Append(dir, Head(comps)))
         THEN Walk(e, fs, Append(dir, Head(comps)), Tail(comps))
    ELSE IF IsFile(e, fs, dir, Head(comps))
         THEN [err |-> "NotADirectoryError", dir |-> dir]
         ELSE [err |-> "FileNotFoundError", dir |-> dir]

(* open(os.path.join(self.download_dir, name), 'wb'), lines 135 and 178,   *)
(* in the environment e, fs being the file objects created so far: the      *)
(* exception it raises (err), or err = "" and the directory and name of the *)
(* file it creates or truncates                                             *)
open_outcome(e, fs, name) ==
    LET path == join(e.download_dir, name)
        p == fsencode(path)
        comps == Components(p)
        w == Walk(e, fs, <<>>, Take(comps, Len(comps) - 1))
        last == comps[Len(comps)]
        fails(err) == [err |-> err, dir |-> <<>>, base |-> <<>>]
    IN IF ~fsencodes(path) THEN fails("UnicodeEncodeError")
       ELSE IF \E i \in DOMAIN p : p[i] = NUL THEN fails("ValueError")
       ELSE IF Len(p) >= PATH_MAX THEN fails("OSError")
       ELSE IF comps = <<>> THEN fails("IsADirectoryError")
       ELSE IF w.err # "" THEN fails(w.err)
       ELSE IF p[Len(p)] = SLASH \/ last = <<DOT>> \/ last = <<DOT, DOT>>
       THEN fails("IsADirectoryError")
       ELSE IF Len(last) > NAME_MAX THEN fails("OSError")
       ELSE IF IsDir(e, Append(w.dir, last)) THEN fails("IsADirectoryError")
       ELSE [err |-> "", dir |-> w.dir, base |-> last]

(* The file object open() returns: the name it was opened under, the        *)
(* directory and name of the file, the bytes written to it, how often       *)
(* close() was called on it, whether the interpreter's finaliser made that  *)
(* call, the body offset of the first byte after its header block, and      *)
(* whether the terminal marker had been seen when it was opened             *)
FileObject(e, fs, name, start, after_term) ==
    [name |-> name,
     dir |-> open_outcome(e, fs, name).dir,
     base |-> open_outcome(e, fs, name).base,
     data |-> <<>>,
     closes |-> 0,
     finalised |-> FALSE,
     start |-> start,
     after_term |-> after_term]

(* print(s) returns: standard output, UTF-8 with the error handler errors,  *)
(* can encode the str, where print raises UnicodeEncodeError otherwise      *)
prints(errors, s) == IF errors = "strict" THEN encodes(s) ELSE fsencodes(s)

(* The handler's frame is released, by its return (line 203) or at the end  *)
(* of the except clause that caught what it raised (lines 206-209): the     *)
(* file object current_file refers to, if it is open, is closed by its      *)
(* finaliser                                                                *)
finalise(fs, cf) ==
    IF cf # 0 /\ fs[cf].closes = 0
    THEN [fs EXCEPT ![cf].closes = 1, ![cf].finalised = TRUE]
    ELSE fs

----------------------------------------------------------------------------
(* The speed report.  Python floats are modelled as exact fractions         *)
(* [num, den] with den > 0; times are whole clock ticks.                    *)

Fraction(n, d) == [num |-> n, den |-> d]
Zero == Fraction(0, 1)
NoSpeed == <<>>

(* a = b, for two fractions *)
SameFraction(a, b) == a.num * b.den = b.num * a.den

(* _calculate_speed, lines 87-93: the pair (current_speed, avg_speed) *)
calculate_speed(bytes_received, total_bytes, elapsed_time) ==
    IF elapsed_time = 0
    THEN <<Zero, Zero>>
    ELSE << Fraction(bytes_received, elapsed_time),
            Fraction(total_bytes, elapsed_time) >>

----------------------------------------------------------------------------
(* _handle_multipart_response: the body of the for loop, lines 118-163.     *)
(* The loop works on a record d of the handler's locals:                    *)
(*   buffer, current_file, files, tot_bytes, start_time, time_now, speed    *)
(*                 as the variables of the same names                       *)
(*   chunk_len     len(chunk)                                               *)
(*   exc           the class of the exception raised, "" when none was      *)
(*   env           the environment, self.download_dir in it                 *)
(*   off           number of body bytes already cut off the buffer's front  *)
(*   term_seen, unnamed_seen, stop, dropped  as the variables of the same   *)
(*                 names                                                    *)
(*   iters         iterations of the while loop on the chunk being processed *)
(*   shrinks       each of them that did not stop made the buffer shorter   *)

(* b'\r\n--' + boundary, lines 123 and 150 *)
Marker == CRLF \o DASHDASH \o boundary

(* b'\r\n--%b--' % boundary, line 143 *)
TerminalMarker == CRLF \o DASHDASH \o boundary \o DASHDASH

(* Mutant of close_current: the open file is left as it is *)
close_current_skipped(d) == d

(* lines 124-126: if current_file: current_file.close(); current_file = None *)
close_current(d) ==
    IF d.current_file # 0
    THEN [d EXCEPT !.files[d.current_file].closes = @ + 1, !.current_file = 0]
    ELSE d

(* lines 134-135, when open() returns:                                      *)
(* current_file = open(os.path.join(download_dir, name), 'wb')              *)
open_part(d, name, at) ==
    [d EXCEPT !.files = Append(@, FileObject(d.env, d.files, name, at, d.term_seen)),
              !.current_file = Len(d.files) + 1]

(* lines 137-138: _calculate_speed(len(chunk), tot_bytes,                   *)
(* time_now - start_time)                                                   *)
report_speed(d) ==
    [d EXCEPT !.speed = calculate_speed(d.chunk_len, d.tot_bytes,
                                        d.time_now - d.start_time)]

(* An exception of class e leaves the loop and the handler *)
raise(d, e) == [d EXCEPT !.stop = "raised", !.exc = e]

(* Mutant of write: the data replaces what the file holds *)
write_replaces(d, data) == [d EXCEPT !.files[d.current_file].data = data]

(* current_file.write(data), lines 153 and 159 *)
write(d, data) == [d EXCEPT !.files[d.current_file].data = @ \o data]

(* buffer = buffer[n:], lines 141, 154 and 160 *)
cut(d, n) == [d EXCEPT !.buffer = Drop(@, n), !.off = @ + n]

(* Mutants of safe_length: a tail of two bytes only; a tail one byte longer *)
safe_length_keeps_two(buf) == Max(0, Len(buf) - 2)
safe_length_keeps_one_more(buf) == Max(0, Len(buf) - CHUNK_SIZE - 1)

(* line 156: safe_length = max(0, len(buffer) - CHUNK_SIZE) *)
safe_length(buf) == Max(0, Len(buf) - CHUNK_SIZE)

(* lines 131-141: the header block of headers_end bytes is decoded, the     *)
(* file it names opened and the speed reported, and the block cut from the  *)
(* buffer; the decode and the open may raise                                *)
header_block(d, headers_end) ==
    LET hdrs == decode(Take(d.buffer, headers_end))
        name == name_match(hdrs)
        o == IF name # NoMatch
             THEN report_speed(open_part(d, name, d.off + headers_end + 4))
             ELSE [d EXCEPT !.unnamed_seen = TRUE]
    IN IF ~decodes(Take(d.buffer, headers_end))
       THEN raise(d, "UnicodeDecodeError")
       ELSE IF name # NoMatch /\ open_outcome(d.env, d.files, name).err # ""
       THEN raise(d, open_outcome(d.env, d.files, name).err)
       ELSE [cut(o, headers_end + 4) EXCEPT !.dropped = @ + headers_end + 4]

(* Mutant of start_of_part: the part name is taken from the header bytes   *)
(* received so far, before the header terminator has arrived               *)
start_of_part_eager(d) ==
    LET c == close_current(d)
        headers_end == find(c.buffer, CRLFCRLF)
        name == name_match(decode(c.buffer))
        all == Len(c.buffer)
    IN IF headers_end # -1
       THEN header_block(c, headers_end)
       ELSE IF /\ decodes(c.buffer)
               /\ name # NoMatch
               /\ open_outcome(c.env, c.files, name).err = ""
       THEN [cut(report_speed(open_part(c, name, c.off + all)), all)
                EXCEPT !.dropped = @ + all]
       ELSE [c EXCEPT !.stop = "headers"]

(* Mutant of start_of_part: the open file is closed in an iteration of its *)
(* own, the header block being looked at in the next one                    *)
start_of_part_closes_first(d) ==
    LET headers_end == find(d.buffer, CRLFCRLF)
    IN IF d.current_file # 0
       THEN close_current(d)
       ELSE IF headers_end = -1
            THEN [d EXCEPT !.stop = "headers"]
            ELSE header_block(d, headers_end)

(* lines 123-141: the buffer starts with the marker *)
start_of_part(d) ==
    LET c == close_current(d)
        headers_end == find(c.buffer, CRLFCRLF)
    IN IF headers_end = -1
       THEN [c EXCEPT !.stop = "headers"]
       ELSE header_block(c, headers_end)

(* lines 143-147: the buffer starts with the terminal marker *)
end_of_parts(d) ==
    IF d.current_file # 0
    THEN [d EXCEPT !.files[d.current_file].closes = @ + 1, !.stop = "done"]
    ELSE [d EXCEPT !.stop = "done"]

(* Mutant of middle_of_part: the slice written at a marker is one byte long *)
middle_of_part_off_by_one(d) ==
    LET next_boundary == find(d.buffer, Marker)
        n == safe_length(d.buffer)
    IN IF next_boundary # -1
       THEN cut(write(d, Take(d.buffer, next_boundary + 1)), next_boundary)
       ELSE IF n > 0
            THEN [cut(write(d, Take(d.buffer, n)), n) EXCEPT !.stop = "payload"]
            ELSE [d EXCEPT !.stop = "payload"]

(* lines 149-161: a file is open *)
middle_of_part(d) ==
    LET next_boundary == find(d.buffer, Marker)
        n == safe_length(d.buffer)
    IN IF next_boundary # -1
       THEN cut(write(d, Take(d.buffer, next_boundary)), next_boundary)
       ELSE IF n > 0
            THEN [cut(write(d, Take(d.buffer, n)), n) EXCEPT !.stop = "payload"]
            ELSE [d EXCEPT !.stop = "payload"]

(* Mutant of iteration: with no file open and no marker at the front of    *)
(* the buffer, the bytes before the next marker in the buffer are discarded *)
iteration_skips_to_marker(d) ==
    LET e == [d EXCEPT !.term_seen = @ \/ startswith(d.buffer, TerminalMarker)]
    IN IF startswith(e.buffer, Marker) THEN start_of_part(e)
       ELSE IF startswith(e.buffer, TerminalMarker) THEN end_of_parts(e)
       ELSE IF e.current_file # 0 THEN middle_of_part(e)
       ELSE IF find(e.buffer, Marker) = -1 THEN [e EXCEPT !.stop = "idle"]
       ELSE cut(e, find(e.buffer, Marker))

(* lines 123-163: one iteration of `while buffer`, the branches in the      *)
(* order of the source; stop = "" when the loop goes on                     *)
iteration(d) ==
    LET e == [d EXCEPT !.term_seen = @ \/ startswith(d.buffer, TerminalMarker)]
    IN IF startswith(e.buffer, Marker) THEN start_of_part(e)
       ELSE IF startswith(e.buffer, TerminalMarker) THEN end_of_parts(e)
       ELSE IF e.current_file # 0 THEN middle_of_part(e)
       ELSE [e EXCEPT !.stop = "idle"]

(* lines 122-163: while buffer *)
RECURSIVE while_buffer(_)
while_buffer(d) ==
    IF d.buffer = <<>>
    THEN [d EXCEPT !.stop = "empty"]
    ELSE LET n == iteration(d)
             m == [n EXCEPT !.iters = @ + 1,
                            !.shrinks = @ /\ (n.stop # "" \/ Len(n.buffer) < Len(d.buffer))]
         IN IF m.stop = "" THEN while_buffer(m) ELSE m

(* lines 118-119: time_now = time(); tot_bytes = tot_bytes + len(chunk),    *)
(* the clock reading now                                                    *)
count_chunk(d, chunk, now) ==
    [d EXCEPT !.time_now = now, !.tot_bytes = @ + Len(chunk),
              !.chunk_len = Len(chunk)]

(* Mutant of for_chunk: the chunk replaces the buffer (= for +=) *)
for_chunk_replaces_buffer(d, chunk, now) ==
    IF chunk # <<>>
    THEN while_buffer([count_chunk(d, chunk, now) EXCEPT !.buffer = chunk, !.stop = ""])
    ELSE count_chunk(d, chunk, now)

(* lines 118-163: the body of `for chunk in response.iter_content(...)`     *)
(* for one chunk, read at the clock reading now, on the locals d            *)
for_chunk(d, chunk, now) ==
    IF chunk # <<>>
    THEN while_buffer([count_chunk(d, chunk, now) EXCEPT !.buffer = @ \o chunk, !.stop = ""])
    ELSE count_chunk(d, chunk, now)

----------------------------------------------------------------------------
(* The responses the server may send and the environments they are         *)
(* received in: the inputs of the model                                     *)

(* The characters of the boundary parameter, a str: 'b\xe9yz', repeated as  *)
(* far as the boundary is long; as bytes, b'b\xc3\xa9yz'                    *)
BoundaryChars == <<98, 233, 121, 122>>

(* Part names: b'g h', b'f', b'k', b'm' *)
Names == << <<103, 32, 104>>, <<102>>, <<107>>, <<109>> >>
EpilogueName == <<122>>             \* b'z'

ShortPayload == <<65, 13>>          \* b'A\r'

(* Payloads: empty; short, ending in a byte that starts the marker; longer  *)
(* than CHUNK_SIZE, holding "\r\n--" followed by a byte that is not the     *)
(* boundary's, and ending in the first two bytes of the marker              *)
Payloads ==
    { <<>>,
      ShortPayload,
      <<65, 13, 10, 45, 45, 66, 67, 68, 69, 13, 10>> }

Endings == {"terminal", "truncated", "epilogue", "unterminated"}
PartKinds ==
    [hdr : {"named"}, payload : Payloads]
        \cup [hdr : {"nokey"}, payload : {<<>>, ShortPayload}]
        \cup [hdr : {"emptyname", "undecodable"}, payload : {ShortPayload}]

(* The white space between the key and the quoted name of part k: none, or  *)
(* U+00A0 in UTF-8                                                          *)
Blank(k) == IF k % 2 = 1 THEN <<194, 160>> ELSE <<>>

(* The header line of the part, the k-th; b'X: y' and b'X: \xff' name no   *)
(* part; a part of kind "path" carries its name, a str                      *)
HeaderLine(part, k) ==
    CASE part.hdr = "named" ->
            PART_NAME_KEY \o Blank(k) \o <<QUOTE>> \o Names[k] \o <<QUOTE>>
      [] part.hdr = "path" ->
            PART_NAME_KEY \o <<32, QUOTE>> \o encode(part.name) \o <<QUOTE>>
      [] part.hdr = "emptyname" -> PART_NAME_KEY \o <<32, QUOTE, QUOTE>>
      [] part.hdr = "undecodable" -> <<88, 58, 32, 255>>
      [] OTHER -> <<88, 58, 32, 121>>

BoundaryOf(s) ==
    [i \in 1..s.nb |-> BoundaryChars[((i - 1) % Len(BoundaryChars)) + 1]]
MarkerOf(s) == CRLF \o DASHDASH \o encode(BoundaryOf(s))

PartBytes(s, k) ==
    MarkerOf(s) \o CRLF \o HeaderLine(s.parts[k], k) \o CRLFCRLF
        \o s.parts[k].payload

RECURSIVE PartsBytes(_, _)
PartsBytes(s, k) ==
    IF k = 0 THEN <<>> ELSE PartsBytes(s, k - 1) \o PartBytes(s, k)

(* What follows the parts: the terminal marker; the terminal marker and a   *)
(* named header block, a vertical tab before the name; a header block that  *)
(* does not end; nothing                                                    *)
EndingBytes(s) ==
    CASE s.ending = "terminal" -> MarkerOf(s) \o DASHDASH
      [] s.ending = "epilogue" ->
            MarkerOf(s) \o DASHDASH \o CRLF \o PART_NAME_KEY
                \o <<11, QUOTE>> \o EpilogueName \o <<QUOTE>> \o CRLFCRLF \o <<90>>
      [] s.ending = "unterminated" ->
            MarkerOf(s) \o CRLF \o PART_NAME_KEY
                \o <<32, QUOTE>> \o EpilogueName \o <<QUOTE>>
                \o CRLF \o <<88, 58, 32, 121>> \o CRLF \o <<88, 58, 32, 121>>
      [] OTHER -> <<>>

BodyOf(s) == PartsBytes(s, Len(s.parts)) \o EndingBytes(s)

(* Content-Type and Content-Disposition: 'multipart; boundary=...',         *)
(* 'multipart; boundary=\ud800', 'multipart/x', 'bin',                      *)
(* 'a; filename="..."', 'att'                                               *)
HeadersOf(s) ==
    CASE s.kind = "multipart" ->
            [ct |-> MULTIPART \o <<59, 32>> \o BOUNDARY_KEY \o BoundaryOf(s),
             cd |-> NoHeader]
      [] s.kind = "multipart_surrogate" ->
            [ct |-> MULTIPART \o <<59, 32>> \o BOUNDARY_KEY \o <<55296>>,
             cd |-> NoHeader]
      [] s.kind = "multipart_noboundary" ->
            [ct |-> MULTIPART \o <<47, 120>>, cd |-> NoHeader]
      [] s.kind = "single" ->
            [ct |-> <<98, 105, 110>>,
             cd |-> <<97, 59, 32>> \o FILENAME_KEY \o <<QUOTE>> \o s.filename \o <<QUOTE>>]
      [] s.kind = "single_nofilename" ->
            [ct |-> <<98, 105, 110>>, cd |-> <<97, 116, 116>>]
      [] OTHER -> [ct |-> <<98, 105, 110>>, cd |-> NoHeader]

(* Names of directories and files: 'dl', 'up1', 'sub', 'k', 'x', 'y' *)
DL == <<100, 108>>
UP1 == <<117, 112, 49>>
SUB == <<115, 117, 98>>
K == <<107>>
X == <<120>>
Y == <<121>>

(* b'OLD', what the file k holds when the download starts *)
OldData == <<79, 76, 68>>

(* The environments: download_dir is '/dl' or '/up1/dl'; it holds a         *)
(* directory sub and a file k                                               *)
Environments ==
    << [download_dir |-> <<SLASH>> \o DL,
        dirs |-> { <<>>, <<DL>>, <<DL, SUB>> },
        olds |-> { [dir |-> <<DL>>, base |-> K, data |-> OldData] }],
       [download_dir |-> <<SLASH>> \o UP1 \o <<SLASH>> \o DL,
        dirs |-> { <<>>, <<UP1>>, <<UP1, DL>>, <<UP1, DL, SUB>> },
        olds |-> { [dir |-> <<UP1, DL>>, base |-> K, data |-> OldData] }] >>

(* The path of download_dir in the environment *)
DownloadDirOf(e) == Components(fsencode(e.download_dir))

(* The parts that open no file of their own name *)
UnnamedParts(p) == {k \in DOMAIN p : p[k].hdr # "named"}

AllMultipartScenarios ==
    { [kind |-> "multipart", nb |-> n, parts |-> p, ending |-> e, clock |-> c,
       env |-> 2, stdout |-> "surrogateescape"] :
        n \in 1..MaxBoundaryLen,
        p \in UNION {[1..k -> PartKinds] : k \in 0..MaxParts},
        e \in Endings,
        c \in {"still", "runs"} }

(* The clock moves while one short named part and the terminal marker are   *)
(* received; it stands still in the other scenarios                         *)
Clocked(s) ==
    /\ s.nb = 1
    /\ s.ending = "terminal"
    /\ s.parts = << [hdr |-> "named", payload |-> ShortPayload] >>

(* The parts whose header block makes the handler raise *)
RaisingParts(p) == {k \in DOMAIN p : p[k].hdr = "undecodable"}

(* At most one part without a name of its own, among two parts at most,    *)
(* and a body that is not empty; a header block that never ends comes       *)
(* first or after one named part; the terminal marker ends a stream with a  *)
(* header block that cannot be decoded                                      *)
MultipartScenarios ==
    { s \in AllMultipartScenarios :
        /\ Cardinality(UnnamedParts(s.parts)) <= 1
        /\ (UnnamedParts(s.parts) # {} => Len(s.parts) <= 2)
        /\ (s.parts # <<>> \/ s.ending # "truncated")
        /\ (s.ending = "unterminated" =>
                (Len(s.parts) <= 1 /\ UnnamedParts(s.parts) = {}))
        /\ (RaisingParts(s.parts) # {} => s.ending = "terminal")
        /\ (s.clock = "runs" => Clocked(s)) }

(* Part names that are paths, by environment: '..', '../dl', 'sub',         *)
(* 'sub/x', 'k/y', 'q/y', 'k', 'x/', 'a\x00b'; '/x' then '../x'; '../x'     *)
(* then '/x/y'; '../../x' then '../x'; '../dl/x' then 'x'; 'x' then 'x/y';  *)
(* and, from '/up1/dl', '../../up1/dl/x' then './../dl/./x'; '../x' then    *)
(* '../../up1/x'; '../../../x' then '/x'                                    *)
PathNames ==
    << { <<<<46, 46>>>>, <<<<46, 46, 47, 100, 108>>>>, <<<<115, 117, 98>>>>, <<<<115, 117, 98, 47, 120>>>>, <<<<107, 47, 121>>>>, <<<<113, 47, 121>>>>, <<<<107>>>>, <<<<120, 47>>>>, <<<<97, 0, 98>>>>,
         <<<<47, 120>>, <<46, 46, 47, 120>>>>,
         <<<<46, 46, 47, 120>>, <<47, 120, 47, 121>>>>,
         <<<<46, 46, 47, 46, 46, 47, 120>>, <<46, 46, 47, 120>>>>,
         <<<<46, 46, 47, 100, 108, 47, 120>>, <<120>>>>,
         <<<<120>>, <<120, 47, 121>>>> },
       { <<<<46, 46, 47, 46, 46, 47, 117, 112, 49, 47, 100, 108, 47, 120>>,
           <<46, 47, 46, 46, 47, 100, 108, 47, 46, 47, 120>>>>,
         <<<<46, 46, 47, 120>>, <<46, 46, 47, 46, 46, 47, 117, 112, 49, 47, 120>>>>,
         <<<<46, 46, 47, 46, 46, 47, 46, 46, 47, 120>>, <<47, 120>>>> } >>

(* The payload of the k-th part named by a path: b'A\r', then b'B' *)
PathPayload(k) == IF k = 1 THEN ShortPayload ELSE <<66>>

PathScenarios ==
    UNION { { [kind |-> "multipart", nb |-> 1,
               parts |-> [k \in DOMAIN names |->
                            [hdr |-> "path", payload |-> PathPayload(k),
                             name |-> names[k]]],
               ending |-> "terminal", clock |-> "still",
               env |-> e, stdout |-> "surrogateescape"] :
              names \in PathNames[e] } : e \in DOMAIN PathNames }

(* File names of the single-file path: 'f', 'a/b', 'a\x00b', '\udc80',      *)
(* 'a\ud800b', 'sub', '../dl/f', and one of NAME_MAX + 1 letters a          *)
SingleFilenames ==
    { <<102>>, <<97, 47, 98>>, <<97, 0, 98>>, <<56448>>,
      <<97, 55296, 98>>, <<115, 117, 98>>, <<46, 46, 47, 100, 108, 47, 102>>,
      [i \in 1..(NAME_MAX + 1) |-> 97] }

SingleScenarios ==
    { [kind |-> "single", nb |-> 1,
       parts |-> << [hdr |-> "named", payload |-> ShortPayload] >>,
       ending |-> "terminal", clock |-> "still",
       env |-> 1, stdout |-> o, filename |-> f] :
        f \in SingleFilenames, o \in {"strict", "surrogateescape"} }

OtherScenarios ==
    { [kind |-> c, nb |-> 1,
       parts |-> << [hdr |-> "named", payload |-> ShortPayload] >>,
       ending |-> "terminal", clock |-> "still",
       env |-> 1, stdout |-> "surrogateescape"] :
        c \in {"multipart_noboundary", "multipart_surrogate",
               "single_nofilename", "single_nocd"} }

Scenarios ==
    MultipartScenarios \cup PathScenarios \cup SingleScenarios \cup OtherScenarios

(* A boundary of CHUNK_SIZE - 3 characters, CHUNK_SIZE - 2 bytes in UTF-8:  *)
(* the marker CRLF--boundary is two bytes longer than CHUNK_SIZE, the tail  *)
(* that line 156 keeps back                                                 *)
LongBoundaryLen == CHUNK_SIZE - 3

(* One or two named parts, each payload short or longer than CHUNK_SIZE,    *)
(* between markers of the long boundary, then the terminal marker           *)
LongBoundaryScenarios ==
    { [kind |-> "multipart", nb |-> LongBoundaryLen, parts |-> p,
       ending |-> "terminal", clock |-> "still",
       env |-> 2, stdout |-> "surrogateescape"] :
        p \in UNION {[1..k -> [hdr : {"named"}, payload : Payloads \ {<<>>}]] :
                        k \in 1..2} }

----------------------------------------------------------------------------
(* The state machine *)

Start(S) ==
    /\ sc \in S
    /\ headers = HeadersOf(sc)
    /\ body = BodyOf(sc)
    /\ pos = 0
    /\ fetched = FALSE
    /\ pc = "start"
    /\ boundary = <<>>
    /\ buffer = <<>>
    /\ current_file = 0
    /\ files = <<>>
    /\ tot_bytes = 0
    /\ term_seen = FALSE
    /\ unnamed_seen = FALSE
    /\ stop = ""
    /\ split = 0
    /\ dropped = 0
    /\ start_time = 0
    /\ time_now = 0
    /\ speed = NoSpeed

Init == Start(Scenarios)

(* The responses of Init and those with the long boundary *)
LongInit == Start(Scenarios \cup LongBoundaryScenarios)

(* The environment of the response *)
Env == Environments[sc.env]

(* download, lines 199-205: the dispatch on the content type *)
is_multipart == find(headers.ct, MULTIPART) # -1

(* _handle_single_file_response, lines 168-174: the file name, NoMatch when *)
(* the handler raises ValueError                                            *)
single_filename ==
    IF headers.cd = NoHeader \/ headers.cd = <<>>
    THEN NoMatch
    ELSE filename_match(headers.cd)

(* What time() may return at line 106: the clock starts at any tick *)
FirstReadings == IF sc.clock = "runs" THEN {0, 1} ELSE {0}

(* What time() may return at line 118: the last reading or a later one *)
Readings ==
    IF sc.clock = "runs"
    THEN time_now..(start_time + MaxElapsed)
    ELSE {time_now}

(* download, lines 199-203, into _handle_multipart_response, lines 106-115 *)
StartMultipart ==
    /\ pc = "start"
    /\ is_multipart
    /\ \E now \in FirstReadings :
         /\ start_time' = now
         /\ time_now' = now
    /\ IF boundary_match(headers.ct) = NoMatch
       THEN /\ pc' = "ValueError"
            /\ UNCHANGED boundary
       ELSE IF ~encodes(boundary_match(headers.ct))
       THEN /\ pc' = "UnicodeEncodeError"
            /\ UNCHANGED boundary
       ELSE /\ pc' = "multipart"
            /\ boundary' = encode(boundary_match(headers.ct))
    /\ UNCHANGED <<sc, headers, body, pos, fetched, buffer, current_file, files,
                   tot_bytes, term_seen, unnamed_seen, stop, split, dropped,
                   speed>>

(* download, lines 199-205, into _handle_single_file_response, lines        *)
(* 168-178: the file name is found or ValueError raised, and the file       *)
(* opened unless open() raises                                              *)
StartSingle ==
    /\ pc = "start"
    /\ ~is_multipart
    /\ IF single_filename = NoMatch
       THEN /\ pc' = "ValueError"
            /\ UNCHANGED <<files, current_file>>
       ELSE IF open_outcome(Env, <<>>, single_filename).err # ""
       THEN /\ pc' = open_outcome(Env, <<>>, single_filename).err
            /\ UNCHANGED <<files, current_file>>
       ELSE /\ pc' = "single"
            /\ files' = << FileObject(Env, <<>>, single_filename, 0, FALSE) >>
            /\ current_file' = 1
    /\ UNCHANGED <<sc, headers, body, pos, fetched, boundary, buffer, tot_bytes,
                   term_seen, unnamed_seen, stop, split, dropped, start_time,
                   time_now, speed>>

(* The locals of _handle_multipart_response the for loop works on *)
Locals ==
    [buffer |-> buffer, current_file |-> current_file, files |-> files,
     tot_bytes |-> tot_bytes, start_time |-> start_time,
     time_now |-> time_now, speed |-> speed, chunk_len |-> 0, exc |-> "",
     env |-> Env,
     off |-> pos - Len(buffer), term_seen |-> term_seen,
     unnamed_seen |-> unnamed_seen, stop |-> stop, dropped |-> dropped,
     iters |-> 0, shrinks |-> TRUE]

(* The buffer ends with the first k bytes of the marker, 0 < k < len(marker), *)
(* and the chunk starts with the marker's other bytes                       *)
CompletesMarker(buf, chunk) ==
    \E k \in 1..(Len(Marker) - 1) :
        /\ k <= Len(buf)
        /\ Drop(buf, Len(buf) - k) = Take(Marker, k)
        /\ startswith(chunk, Drop(Marker, k))

(* iter_content yields the next chunk, of at most CHUNK_SIZE bytes (line    *)
(* 117), and the loop body of lines 118-163 runs on it; an exception it     *)
(* raises leaves the handler and is caught by download, lines 208-209       *)
MultipartChunk ==
    /\ pc = "multipart"
    /\ pos < Len(body)
    /\ \E n \in 0..Min(CHUNK_SIZE, Len(body) - pos), now \in Readings :
         LET chunk == SubSeq(body, pos + 1, pos + n)
         IN \E d \in {for_chunk(Locals, chunk, now)} :
              /\ pos' = pos + n
              /\ pc' = IF d.exc # "" THEN d.exc ELSE pc
              /\ time_now' = d.time_now
              /\ tot_bytes' = d.tot_bytes
              /\ speed' = d.speed
              /\ buffer' = d.buffer
              /\ current_file' = d.current_file
              /\ files' = IF d.exc # ""
                          THEN finalise(d.files, d.current_file)
                          ELSE d.files
              /\ term_seen' = d.term_seen
              /\ unnamed_seen' = d.unnamed_seen
              /\ stop' = d.stop
              /\ dropped' = d.dropped
              /\ split' = IF current_file # 0 /\ CompletesMarker(buffer, chunk)
                          THEN current_file ELSE 0
    /\ fetched' = TRUE
    /\ UNCHANGED <<sc, headers, body, boundary, start_time>>

(* iter_content is exhausted: the for loop of line 117 ends and             *)
(* _handle_multipart_response returns; the file it left open is closed as   *)
(* its frame is released                                                    *)
MultipartExhausted ==
    /\ pc = "multipart"
    /\ pos = Len(body)
    /\ pc' = "returned"
    /\ fetched' = TRUE
    /\ files' = finalise(files, current_file)
    /\ UNCHANGED <<sc, headers, body, pos, boundary, buffer, current_file,
                   tot_bytes, term_seen, unnamed_seen, stop, split, dropped,
                   start_time, time_now, speed>>

(* iter_content raises ChunkedEncodingError, which leaves the handler and   *)
(* is caught by download, lines 206-207; the file the handler left open is  *)
(* closed as its frame is released, when the except clause ends             *)
MultipartTransportError ==
    /\ pc = "multipart"
    /\ pc' = "ChunkedEncodingError"
    /\ fetched' = TRUE
    /\ files' = finalise(files, current_file)
    /\ UNCHANGED <<sc, headers, body, pos, boundary, buffer, current_file,
                   tot_bytes, term_seen, unnamed_seen, stop, split, dropped,
                   start_time, time_now, speed>>

(* Mutant of f_write: the chunk goes in front of what the file holds *)
f_write_in_front(data, chunk) == chunk \o data

(* _handle_single_file_response, line 181: f.write(chunk), on the bytes the *)
(* file holds                                                               *)
f_write(data, chunk) == data \o chunk

(* _handle_single_file_response, lines 179-181: one chunk *)
SingleChunk ==
    /\ pc = "single"
    /\ pos < Len(body)
    /\ \E n \in 0..Min(CHUNK_SIZE, Len(body) - pos) :
         /\ pos' = pos + n
         /\ files' = IF n > 0
                     THEN [files EXCEPT ![current_file].data =
                                            f_write(@, SubSeq(body, pos + 1, pos + n))]
                     ELSE files
    /\ fetched' = TRUE
    /\ UNCHANGED <<sc, headers, body, pc, boundary, buffer, current_file,
                   tot_bytes, term_seen, unnamed_seen, stop, split, dropped,
                   start_time, time_now, speed>>

(* 'Downloaded: ', line 182 *)
DOWNLOADED == <<68, 111, 119, 110, 108, 111, 97, 100, 101, 100, 58, 32>>

(* _handle_single_file_response, lines 178-182: the source is exhausted,    *)
(* the with statement closes the file, and the file name is printed; a      *)
(* print that raises leaves the handler and is caught by download, lines    *)
(* 208-209                                                                  *)
SingleExhausted ==
    /\ pc = "single"
    /\ pos = Len(body)
    /\ pc' = IF prints(sc.stdout, DOWNLOADED \o single_filename)
             THEN "returned"
             ELSE "UnicodeEncodeError"
    /\ fetched' = TRUE
    /\ files' = [files EXCEPT ![current_file].closes = @ + 1]
    /\ current_file' = 0
    /\ UNCHANGED <<sc, headers, body, pos, boundary, buffer, tot_bytes,
                   term_seen, unnamed_seen, stop, split, dropped, start_time,
                   time_now, speed>>

(* _handle_single_file_response, lines 178-179: iter_content raises, the    *)
(* with statement closes the file, download catches the error               *)
SingleTransportError ==
    /\ pc = "single"
    /\ pc' = "ChunkedEncodingError"
    /\ fetched' = TRUE
    /\ files' = [files EXCEPT ![current_file].closes = @ + 1]
    /\ current_file' = 0
    /\ UNCHANGED <<sc, headers, body, pos, boundary, buffer, tot_bytes,
                   term_seen, unnamed_seen, stop, split, dropped, start_time,
                   time_now, speed>>

Next ==
    \/ StartMultipart
    \/ StartSingle
    \/ MultipartChunk
    \/ MultipartExhausted
    \/ MultipartTransportError
    \/ SingleChunk
    \/ SingleExhausted
    \/ SingleTransportError

Spec == Init /\ [][Next]_vars

(* The same program, on the responses with the long boundary as well *)
LongSpec == LongInit /\ [][Next]_vars

----------------------------------------------------------------------------
(* What the claims speak of *)

IsMultipart == sc.kind = "multipart"

(* Every part names itself and the terminal marker ends the stream *)
WellFormed ==
    /\ IsMultipart
    /\ sc.ending = "terminal"
    /\ UnnamedParts(sc.parts) = {}

(* The same file was opened for two file objects *)
SameFile(f, g) == f.dir = g.dir /\ f.base = g.base

(* The files on disk: for each file a file object was opened for, what the *)
(* last of them holds (open(..., 'wb') truncates); and the files that were  *)
(* there, as they were, when no file object was opened for them             *)
Disk(fs) ==
    { [dir |-> fs[i].dir, base |-> fs[i].base, data |-> fs[i].data] :
        i \in {j \in DOMAIN fs : \A k \in DOMAIN fs : k > j => ~SameFile(fs[k], fs[j])} }
      \cup { o \in Env.olds : \A i \in DOMAIN fs : ~SameFile(fs[i], o) }

(* The parts the server sent, as files of download_dir *)
PartFiles ==
    { [dir |-> DownloadDirOf(Env), base |-> Names[k], data |-> sc.parts[k].payload] :
        k \in DOMAIN sc.parts }

(* What a download of the parts leaves on disk: the parts, and the files    *)
(* that were there under other names                                        *)
SentParts ==
    PartFiles \cup { o \in Env.olds : \A f \in PartFiles : ~SameFile(f, o) }

(* The handler's locals before the first chunk, lines 106-115 *)
InitLocals ==
    [buffer |-> <<>>, current_file |-> 0, files |-> <<>>, tot_bytes |-> 0,
     start_time |-> start_time, time_now |-> start_time, speed |-> NoSpeed,
     chunk_len |-> 0, exc |-> "", env |-> Env, off |-> 0, term_seen |-> FALSE,
     unnamed_seen |-> FALSE, stop |-> "", dropped |-> 0, iters |-> 0,
     shrinks |-> TRUE]

(* The decode of the whole body delivered as one chunk, at the first        *)
(* reading of the clock                                                     *)
SingleShot == for_chunk(InitLocals, body, start_time)

(* The payload that starts at body offset at: the bytes up to the next      *)
(* marker, or to the end of the body when no marker follows                 *)
PayloadAt(at) ==
    LET rest == Drop(body, at)
        m == find(rest, Marker)
    IN IF m = -1 THEN rest ELSE Take(rest, m)

----------------------------------------------------------------------------
SplitMarkerKeepsPayload ==
    split # 0 =>
        /\ files[split].closes = 1
        /\ files[split].data = PayloadAt(files[split].start)

(* Every proper prefix of the marker fits in the tail of CHUNK_SIZE bytes   *)
(* that line 156 keeps back                                                 *)
MarkerFitsTail == Len(boundary) + 3 <= CHUNK_SIZE

(* C2 (as claimed): when a file is open, the buffer ends with a proper      *)
(* prefix of the marker and the next chunk completes the marker, the file   *)
(* is closed holding exactly its part's payload, whatever the length of the *)
(* boundary token.                                                          *)
C2_SplitMarker == SplitMarkerKeepsPayload

(* C2 (amended): the same, for every boundary token of at most              *)
(* CHUNK_SIZE - 3 bytes and every chunk split offset.                       *)
C2_SplitMarkerWithinTail == MarkerFitsTail => SplitMarkerKeepsPayload

(* C2 witness: with a boundary of at most CHUNK_SIZE - 3 bytes, a marker    *)
(* split across two chunks has closed a file whose payload is longer than   *)
(* CHUNK_SIZE, so part of it was flushed before.                            *)
C2_Witness ==
    /\ MarkerFitsTail
    /\ split # 0
    /\ Len(files[split].data) > CHUNK_SIZE

(* C3 (as claimed): when the source is exhausted and no terminal marker was *)
(* observed, the decode ends with a truncation error and no file is left    *)
(* open.                                                                    *)
C3_TruncationIsAnError ==
    (IsMultipart /\ ~term_seen /\ pc \in {"returned", "TruncationError"}) =>
        (pc = "TruncationError" /\ current_file = 0)

(* C4 (as claimed): once an iteration has found the terminal marker at the  *)
(* front of the buffer, no file is open and no file is opened afterwards.   *)
C4_NothingAfterTerminal ==
    term_seen =>
        /\ current_file = 0
        /\ \A i \in DOMAIN files : ~files[i].after_term

(* C5 (as claimed): when the decode has ended, by a return or by a          *)
(* transport error, every file it opened has been closed exactly once, and  *)
(* by the decoder: by a close() of the handler, not by the finaliser of a   *)
(* file object the handler left open.                                       *)
C5_ClosedExactlyOnce ==
    (IsMultipart /\ pc \in {"returned", "ChunkedEncodingError"}) =>
        \A i \in DOMAIN files : files[i].closes = 1 /\ ~files[i].finalised

(* The names the header blocks of the response declare *)
DeclaredNames ==
    {Names[k] : k \in DOMAIN Names} \cup {EpilogueName}
        \cup {sc.parts[k].name : k \in {j \in DOMAIN sc.parts : sc.parts[j].hdr = "path"}}

(* C6 (as claimed): a complete header block without a quoted non-empty part *)
(* name makes the decode fail with a protocol error; no file is created for *)
(* it, and a file is named exactly as its header block declares.            *)
C6_MissingNameIsProtocolError ==
    /\ unnamed_seen => pc = "ProtocolError"
    /\ IsMultipart => \A i \in DOMAIN files : files[i].name \in DeclaredNames

(* C7 (as claimed): waiting in the mid-part state, the decoder holds back   *)
(* at most len(boundary) + 4 bytes, the rest being written to the file.     *)
C7_TailAtMostMarkerLength ==
    (pc = "multipart" /\ stop = "payload") =>
        /\ Len(buffer) <= Len(boundary) + 4
        /\ files[current_file].data \o buffer =
              SubSeq(body, files[current_file].start + 1, pos)

(* C7 (amended): waiting in the mid-part state, the decoder holds back at   *)
(* most CHUNK_SIZE bytes, whatever the boundary's length; every payload     *)
(* byte received before that tail has been written to the open file.        *)
C7_TailAtMostChunkSize ==
    (pc = "multipart" /\ stop = "payload") =>
        /\ current_file # 0
        /\ Len(buffer) <= CHUNK_SIZE
        /\ files[current_file].data \o buffer =
              SubSeq(body, files[current_file].start + 1, pos)

(* C7 witness: the decoder waits with a full tail of CHUNK_SIZE bytes,      *)
(* longer than the marker, after having flushed payload to the file.        *)
C7_Witness ==
    /\ pc = "multipart"
    /\ stop = "payload"
    /\ Len(buffer) = CHUNK_SIZE
    /\ Len(buffer) > Len(boundary) + 4
    /\ files[current_file].data # <<>>

(* C8: a stream of the terminal marker alone, whatever the chunking,        *)
(* creates no file, raises nothing in the handler, and the handler returns  *)
(* when the source is exhausted.                                            *)
C8_ZeroParts ==
    (IsMultipart /\ sc.parts = <<>> /\ sc.ending = "terminal") =>
        /\ files = <<>>
        /\ pc \in {"start", "multipart", "returned", "ChunkedEncodingError"}
        /\ (pc = "ChunkedEncodingError" => fetched)

(* C8 witness: the terminal marker alone has been received in full and the  *)
(* handler has returned.                                                    *)
C8_Witness ==
    /\ IsMultipart
    /\ sc.parts = <<>>
    /\ sc.ending = "terminal"
    /\ pc = "returned"
    /\ term_seen
    /\ pos = Len(body)

(* The response lacks the parameter its path needs *)
NoBoundaryParam == is_multipart /\ find(headers.ct, BOUNDARY_KEY) = -1
NoFilenameHint ==
    /\ ~is_multipart
    /\ (headers.cd = NoHeader \/ find(headers.cd, FILENAME_KEY) = -1)

(* C9: when the content type of a multipart response has no boundary=, or a *)
(* single-file response has no file name, the handler raises ValueError     *)
(* before it asks for a chunk and before it opens a file.                   *)
C9_MissingParameter ==
    (NoBoundaryParam \/ NoFilenameHint) =>
        /\ pc \in {"start", "ValueError"}
        /\ ~fetched
        /\ pos = 0
        /\ files = <<>>

(* C9 witness: a multipart response without boundary= has been rejected.    *)
C9_Witness ==
    /\ NoBoundaryParam
    /\ pc = "ValueError"

IsSingle == sc.kind = "single"

(* The single-file handler has opened its file and consumed the whole       *)
(* source: the loop of lines 179-181 has ended and the file is closed. The  *)
(* handler then returns, or its print at line 182 fails                     *)
SourceExhausted ==
    /\ IsSingle
    /\ files # <<>>
    /\ pc \in {"returned", "UnicodeEncodeError"}

(* C11: on the single-file path with a file name, the opened file holds at  *)
(* every moment the chunks received so far, in arrival order; when the      *)
(* source is exhausted it holds exactly the whole body, so its size is the  *)
(* sum of the chunk lengths, and it has been closed. This is so whether the *)
(* handler then returns or fails printing the name.                         *)
C11_SingleFileIsConcatenation ==
    (IsSingle /\ files # <<>>) =>
        /\ Len(files) = 1
        /\ files[1].data = Take(body, pos)
        /\ SourceExhausted =>
              /\ files[1].data = body
              /\ Len(files[1].data) = Len(body)
              /\ files[1].closes = 1
              /\ Disk(files) = {[dir |-> files[1].dir, base |-> files[1].base, data |-> body]}
                                  \cup {o \in Env.olds : ~SameFile(files[1], o)}

(* C11 witness: a body of more than two full chunks, so delivered in three  *)
(* chunks at least, has been written and the handler has returned.          *)
C11_Witness ==
    /\ SourceExhausted
    /\ pc = "returned"
    /\ Len(body) > 2 * CHUNK_SIZE
    /\ files[1].data = body

(* A header-size ceiling: the specification asks for one and names no       *)
(* value; two chunks is the value the model tests the code against          *)
HeaderCeiling == 2 * CHUNK_SIZE

(* The buffer starts with a marker and holds no header terminator *)
HeaderIncomplete ==
    /\ IsMultipart
    /\ boundary # <<>>
    /\ startswith(buffer, Marker)
    /\ find(buffer, CRLFCRLF) = -1

(* C12 (as claimed): when the buffer starts with a marker, holds no header  *)
(* terminator and has grown past the header-size ceiling, the decode has    *)
(* failed with a protocol error.                                            *)
C12_HeaderCeilingIsEnforced ==
    (HeaderIncomplete /\ Len(buffer) > HeaderCeiling) => pc = "ProtocolError"

(* The step calls _calculate_speed (lines 137-138): its chunk completes a  *)
(* named header block and the file is opened                                *)
Reports == pc = "multipart" /\ Len(files') > Len(files)

(* What _calculate_speed does with no time elapsed, and its average: both   *)
(* speeds are 0 when the elapsed time is 0, and otherwise the average       *)
(* speed is tot_bytes over the time elapsed since the start                 *)
ZeroElapsedAndAverage ==
    /\ time_now' = start_time => speed' = <<Zero, Zero>>
    /\ time_now' # start_time =>
          SameFraction(speed'[2], Fraction(tot_bytes', time_now' - start_time))

(* C13, the part of it that holds: at every report, both speeds are 0 when  *)
(* the elapsed time is 0, and otherwise the average speed is total_bytes    *)
(* over the total elapsed time.                                             *)
C13_ZeroElapsedAndAverage == [][Reports => ZeroElapsedAndAverage]_vars

(* C13 (as claimed): both speeds are 0 when the elapsed time is 0;          *)
(* otherwise the average speed is total_bytes over the total elapsed time   *)
(* and the current speed is the bytes of the interval, those of the chunk,  *)
(* over the interval's duration, the time since the chunk before.           *)
C13_CurrentSpeedOfTheInterval ==
    [][Reports =>
          /\ ZeroElapsedAndAverage
          /\ (time_now' # start_time /\ time_now' # time_now) =>
                SameFraction(speed'[1], Fraction(pos' - pos, time_now' - time_now))]_vars

(* The chunk the step delivers, and the buffer the while loop starts on *)
ChunkOfStep == SubSeq(body, pos + 1, pos')
BufferOfStep == buffer \o ChunkOfStep

(* The step delivers a chunk after which the buffer starts with a marker    *)
(* and holds no header terminator                                           *)
HeaderStillIncomplete ==
    /\ pc = "multipart"
    /\ pos' > pos
    /\ startswith(BufferOfStep, Marker)
    /\ find(BufferOfStep, CRLFCRLF) = -1

(* The header block whose terminator ends just before body offset at: the  *)
(* offsets at which a buffer starting with a marker found that terminator   *)
BlockStarts(at) ==
    { m \in 0..(at - 4) :
        /\ startswith(Drop(body, m), Marker)
        /\ find(Drop(body, m), CRLFCRLF) = at - 4 - m }

(* The decoder waits for the rest of a header block *)
C14_Waiting ==
    (IsMultipart /\ stop = "headers") =>
        /\ HeaderIncomplete
        /\ current_file = 0
        /\ buffer = SubSeq(body, pos - Len(buffer) + 1, pos)

(* Every file was opened from a whole header block, one file per block *)
C14_ParsedOnceAndWhole ==
    IsMultipart =>
        /\ \A i \in DOMAIN files :
              \E m \in BlockStarts(files[i].start) :
                  files[i].name = name_match(decode(SubSeq(body, m + 1, files[i].start - 4)))
        /\ \A i, j \in DOMAIN files : i < j => files[i].start < files[j].start

(* C14: a chunk after which the buffer starts with the marker and holds no  *)
(* header terminator leaves the whole buffer in place, opens no file and    *)
(* writes nothing, and the decoder waits; a header block is parsed once,    *)
(* when all of it through CRLF CRLF is in the buffer.                       *)
C14_IncompleteHeaderWaits ==
    /\ [](C14_Waiting /\ C14_ParsedOnceAndWhole)
    /\ [][HeaderStillIncomplete =>
            /\ buffer' = BufferOfStep
            /\ stop' = "headers"
            /\ Len(files') = Len(files)
            /\ \A i \in DOMAIN files :
                  /\ files'[i].data = files[i].data
                  /\ files'[i].name = files[i].name]_vars

(* C14 witness: a header block arrived in pieces: the decoder waits with    *)
(* the marker and part of the header line in the buffer, a file from the    *)
(* part before already written and closed.                                  *)
C14_Witness ==
    /\ IsMultipart
    /\ stop = "headers"
    /\ Len(buffer) > Len(Marker) + 2
    /\ ~startswith(buffer, TerminalMarker)
    /\ Len(files) = 1
    /\ files[1].data # <<>>
    /\ files[1].closes = 1

(* C15: for a well-formed stream with every part named, under every         *)
(* chunking, the while loop ends in the branch of lines 162-163 (no file    *)
(* open, no marker at the front of the buffer) only while the buffer is     *)
(* the body received so far and shorter than the first marker: nothing was  *)
(* consumed, no marker was recognized and no file opened yet.               *)
C15_IdleOnlyBeforeFirstMarker ==
    (WellFormed /\ stop = "idle") =>
        /\ current_file = 0
        /\ files = <<>>
        /\ buffer = Take(body, pos)
        /\ Len(buffer) < Len(Marker)
        /\ startswith(Marker, buffer)

(* C15 witness: a well-formed stream whose first chunks hold only part of   *)
(* the first marker, the decoder waiting in the branch of lines 162-163.    *)
C15_Witness ==
    /\ WellFormed
    /\ Len(sc.parts) = 2
    /\ stop = "idle"
    /\ Len(buffer) = Len(Marker) - 1

RECURSIVE Written(_)
Written(fs) ==
    IF fs = <<>> THEN 0 ELSE Len(fs[Len(fs)].data) + Written(Take(fs, Len(fs) - 1))

(* C17: after each chunk of a multipart decode, well-formed or not, the     *)
(* bytes received so far, which tot_bytes counts, are the bytes written to  *)
(* the files plus the bytes cut from the buffer as marker and header bytes  *)
(* plus the bytes in the buffer; tot_bytes never decreases.                 *)
C17_BytesAreConserved ==
    /\ [](IsMultipart =>
            /\ tot_bytes = pos
            /\ tot_bytes = Written(files) + dropped + Len(buffer))
    /\ [][tot_bytes' >= tot_bytes]_vars

(* C17 witness: bytes of all three kinds: written to two files, cut as      *)
(* header blocks, and held in the buffer, which is not the whole input.     *)
C17_Witness ==
    /\ IsMultipart
    /\ pc = "multipart"
    /\ Len(files) = 2
    /\ files[1].data # <<>>
    /\ files[2].data # <<>>
    /\ dropped > 0
    /\ buffer # <<>>
    /\ tot_bytes > Len(buffer) + dropped

(* The while loop of the step, run on the chunk the step delivers *)
LoopOfStep == for_chunk(Locals, ChunkOfStep, time_now')

(* C18: the while loop ends for every chunk: each iteration stops the loop  *)
(* or leaves the buffer strictly shorter, so that the loop, entered with    *)
(* the buffer and the chunk, runs at most as many iterations as that        *)
(* buffer has bytes.                                                        *)
C18_LoopTerminates ==
    [][(pc = "multipart" /\ pos' > pos) =>
          LET r == LoopOfStep
          IN /\ r.buffer = buffer'
             /\ r.shrinks
             /\ r.iters >= 1
             /\ r.iters <= Len(BufferOfStep)]_vars

(* C18 witness: a state in which a chunk can arrive on which the loop runs  *)
(* three iterations: a header block cut, a payload written up to the next   *)
(* marker, and the wait for the next header block.                          *)
C18_Witness ==
    /\ pc = "multipart"
    /\ \E n \in 1..Min(CHUNK_SIZE, Len(body) - pos) :
          LET r == for_chunk(Locals, SubSeq(body, pos + 1, pos + n), time_now)
          IN /\ r.iters = 3
             /\ r.stop = "headers"
             /\ Len(r.files) = Len(files) + 1
             /\ r.files[Len(r.files)].data # <<>>

(* No file is open and the buffer starts with bytes that are neither the    *)
(* marker nor the beginning of it                                           *)
Wedged ==
    /\ IsMultipart
    /\ boundary # <<>>
    /\ current_file = 0
    /\ buffer # <<>>
    /\ ~startswith(buffer, Marker)
    /\ ~startswith(Marker, buffer)

(* C19: once no file is open and the buffer starts with bytes that are      *)
(* neither the marker nor a proper prefix of it, every later step leaves    *)
(* the decoder so: no file is opened, nothing is written, and the buffer    *)
(* is what it was with the chunk appended, whatever the chunk holds.        *)
C19_WedgedForGood ==
    [][Wedged =>
          /\ Wedged'
          /\ files' = files
          /\ buffer' = BufferOfStep]_vars

(* C19 witness: a part without a name and with a payload came first; the    *)
(* named part and the terminal marker that followed were received in full   *)
(* and sit in the buffer, no file having been opened.                       *)
C19_Witness ==
    /\ Wedged
    /\ unnamed_seen
    /\ Len(sc.parts) = 2
    /\ sc.parts[2].hdr = "named"
    /\ sc.ending = "terminal"
    /\ pos = Len(body)
    /\ files = <<>>
    /\ find(buffer, PART_NAME_KEY) # -1
    /\ find(buffer, TerminalMarker) # -1

====
